---- MODULE Spec2Model ----
(***************************************************************************)
(* One request to POST /process_video of src/app.py, as a state machine.   *)
(*                                                                         *)
(* Time.  The probed duration is a whole number of ticks, TicksPerSecond   *)
(* ticks to the second.  The times of a request (segment_duration, offset, *)
(* start_time, end_time) are kept exactly, as whole numbers of units,      *)
(* Den(num_shorts) units to the second: the unit clears the division by    *)
(* max(num_shorts, 1) (line 113) and the factor 0.2 = 1/5 (line 116).      *)
(*                                                                         *)
(* Failures.  The calls that open, cut, transform, encode, create, write   *)
(* or read may raise (VideoFileClip, subclip, resize/crop, write_videofile,*)
(* the write of the source file, the read-back of an encoded file, the     *)
(* parse of num_shorts, the base64 decode, the download).  The calls that  *)
(* release (close, os.unlink) and the logger, the arithmetic and jsonify   *)
(* do not.                                                                 *)
(***************************************************************************)
EXTENDS Integers, Sequences, FiniteSets, TLC

VARIABLES pc, video_input, num_shorts, duration, video_open,
          i, start_time, end_time, shorts, debug_errors, files, response,
          trace

vars == <<pc, video_input, num_shorts, duration, video_open,
          i, start_time, end_time, shorts, debug_errors, files, response,
          trace>>

----------------------------------------------------------------------------
(* Bounds of the model *)

TicksPerSecond == 4

BelowOne == 1

AboveMax == 1

(* Program constants *)

MinDuration == 30

MaxCount == 5

ClipLength == 15

MinSegmentLength == 5

MaxOffset == 10

OffsetDivisor == 5

DefaultNumShorts == 3

Min(a, b) == LET x == a y == b IN IF x < y THEN x ELSE y

Max(a, b) == LET x == a y == b IN IF x > y THEN x ELSE y

(* The requested counts tried: from 1 - BelowOne (below 1) to 5, and one   *)
(* above 5, 5 + AboveMax.                                                  *)
NumShortsInputs == ((1 - BelowOne)..MaxCount) \cup {MaxCount + AboveMax}

(* The probed durations tried, in ticks: just below the minimum, the      *)
(* minimum, 31.25 s (where the last of 5 windows is 5 s long), 40 s, 60 s. *)
Durations ==
    { MinDuration * TicksPerSecond - 1,
      MinDuration * TicksPerSecond,
      (125 * TicksPerSecond) \div 4,
      40 * TicksPerSecond,
      60 * TicksPerSecond }

----------------------------------------------------------------------------
(* The segment planner, lines 111-121 *)

(* range(min(max(num_shorts, 1), 5)) *)
LoopCount(n) == Min(Max(n, 1), MaxCount)

(* Units per second of the times of a request with num_shorts = n. *)
Den(n) == OffsetDivisor * Max(n, 1) * TicksPerSecond

(* segment_duration = duration / max(num_shorts, 1) *)
SegmentDuration(d, n) == OffsetDivisor * d

(* offset = min(10, segment_duration * 0.2) *)
OffsetMax(d, n) == Max(MaxOffset * Den(n), SegmentDuration(d, n) \div OffsetDivisor)

Offset(d, n) == Min(MaxOffset * Den(n), SegmentDuration(d, n) \div OffsetDivisor)

(* start_time = i * segment_duration + offset *)
StartTime(d, n, k) == k * SegmentDuration(d, n) + Offset(d, n)

(* end_time = min(duration, start_time + 15) *)
EndTime(d, n, k) ==
    Min(d * OffsetDivisor * Max(n, 1), StartTime(d, n, k) + ClipLength * Den(n))

(* end_time - start_time < 5 *)
TooShortBelow4(d, n, k) ==
    EndTime(d, n, k) - StartTime(d, n, k) < (MinSegmentLength - 1) * Den(n)

TooShort(d, n, k) ==
    EndTime(d, n, k) - StartTime(d, n, k) < MinSegmentLength * Den(n)

(* duration < 30 *)
RejectDurationBelow29(d) == d < (MinDuration - 1) * TicksPerSecond

RejectDuration(d) == d < MinDuration * TicksPerSecond

(* The loop's next position after iteration k: the next index, or the end  *)
(* of range(...).                                                          *)
NextIteration(k, n) == IF k + 1 < LoopCount(n) THEN "loop" ELSE "cleanup"

(* `continue` after a failed window, lines 174 and 203 *)
OnFailureBreak(k, n) == "cleanup"

OnFailure(k, n) == NextIteration(k, n)

----------------------------------------------------------------------------
(* Files, clips, diagnostics, responses *)

VideoFile == [kind |-> "video", index |-> 0]

ShortFile(k) == [kind |-> "short", index |-> k]

AudioFile(k) == [kind |-> "audio", index |-> k]

(* The entry of `shorts` for window k, lines 180-186 *)
ShortEntry(k, st, en) ==
    [ index     |-> k,
      type      |-> IF k % 2 = 0 THEN "but" ELSE "dribble",
      timestamp |-> st,
      duration  |-> en - st ]

(* shorts.append(...) *)
AddShortFront(s, e) == <<e>> \o s

AddShort(s, e) == Append(s, e)

(* debug_errors.append(msg) *)
AddError(errs, kind, k) == Append(errs, [kind |-> kind, index |-> k])

(* The crop attempt and its fallback, lines 131-139: the transform the     *)
(* window is encoded with, or "raise" when the fallback resize raises too. *)
TransformNoFallback(cropOk, resizeOk) == IF cropOk THEN "Crop" ELSE "raise"

Transform(cropOk, resizeOk) ==
    IF cropOk THEN "Crop" ELSE IF resizeOk THEN "ResizeOnly" ELSE "raise"

(* debug_errors after the crop attempt, line 138 *)
LogCropSilent(errs, k, cropOk) == errs

LogCrop(errs, k, cropOk) ==
    IF cropOk THEN errs ELSE AddError(errs, "crop_fail", k)

(* The files after write_videofile(temp_short, temp_audiofile=...,         *)
(* remove_temp=True) returned, lines 142-160: both temporary files were    *)
(* created, and the encoder removed its temporary audio file.              *)
AfterWrite(fs, k) ==
    (fs \cup {ShortFile(k), AudioFile(k)}) \ {AudioFile(k)}

(* The files after the handler of a failed write_videofile, lines 166-168 *)
AfterWriteFailure(fs, k) ==
    (fs \cup {ShortFile(k), AudioFile(k)}) \ {ShortFile(k), AudioFile(k)}

(* len(shorts) == 0, line 210 *)
NoShortsUpToOne(s) == Len(s) <= 1

NoShorts(s) == Len(s) = 0

NoResponse ==
    [ status |-> 0, success |-> FALSE, error |-> "", keys |-> {},
      shorts |-> <<>>, shorts_created |-> 0, debug_errors |-> <<>> ]

(* jsonify({"success": False, "error": ...}), status *)
ErrorResponse(status, error) ==
    [ status |-> status, success |-> FALSE, error |-> error,
      keys |-> {"success", "error"},
      shorts |-> <<>>, shorts_created |-> 0, debug_errors |-> <<>> ]

(* lines 210-227 *)
Report(s, errs) ==
    IF NoShorts(s)
    THEN [ status |-> 400, success |-> FALSE, error |-> "Aucun short genere",
           keys |-> {"success", "error", "original_duration", "shorts_created",
                     "debug_errors"},
           shorts |-> <<>>, shorts_created |-> 0, debug_errors |-> errs ]
    ELSE [ status |-> 200, success |-> TRUE, error |-> "",
           keys |-> {"success", "shorts", "original_duration", "shorts_created",
                     "debug_errors"},
           shorts |-> s, shorts_created |-> Len(s), debug_errors |-> errs ]

(* The record of one window handed to extraction: what each step did       *)
(* ("none": not reached), the transform used and the window's result.      *)
Attempt(k, sub, crop, resize, mode, encode, read, result) ==
    [ index |-> k, subclip |-> sub, crop |-> crop, resize |-> resize,
      mode |-> mode, encode |-> encode, read |-> read, result |-> result ]

Outcome(ok) == IF ok THEN "ok" ELSE "fail"

----------------------------------------------------------------------------
Init ==
    /\ pc = "start"
    /\ video_input = "none"
    /\ num_shorts = 0
    /\ duration = 0
    /\ video_open = FALSE
    /\ i = 0
    /\ start_time = 0
    /\ end_time = 0
    /\ shorts = <<>>
    /\ debug_errors = <<>>
    /\ files = {}
    /\ response = NoResponse
    /\ trace = <<>>

Respond(r) ==
    /\ response' = r
    /\ pc' = "done"

(* lines 45-55: no JSON body *)
ReceiveNoData ==
    /\ pc = "start"
    /\ Respond(ErrorResponse(400, "Aucune donnee JSON recue"))
    /\ UNCHANGED <<video_input, num_shorts, duration, video_open, i,
                   start_time, end_time, shorts, debug_errors, files, trace>>

(* line 61: int(data.get('num_shorts', 3)) raises, caught at line 229 *)
ReceiveBadCount ==
    /\ pc = "start"
    /\ \E input \in {"none", "base64", "url"} : video_input' = input
    /\ Respond(ErrorResponse(500, "exception"))
    /\ UNCHANGED <<num_shorts, duration, video_open, i,
                   start_time, end_time, shorts, debug_errors, files, trace>>

(* lines 59-61 and 82-84: neither video_base64 nor video_url *)
ReceiveNoVideo ==
    /\ pc = "start"
    /\ \E given \in BOOLEAN, n \in NumShortsInputs :
         num_shorts' = IF given THEN n ELSE DefaultNumShorts
    /\ video_input' = "none"
    /\ Respond(ErrorResponse(400, "video_base64 ou video_url manquant"))
    /\ UNCHANGED <<duration, video_open, i,
                   start_time, end_time, shorts, debug_errors, files, trace>>

(* lines 59-81: the video is decoded or downloaded, or that fails *)
ReceiveVideo ==
    /\ pc = "start"
    /\ \E given \in BOOLEAN, n \in NumShortsInputs :
         num_shorts' = IF given THEN n ELSE DefaultNumShorts
    /\ \E input \in {"base64", "url"}, loaded \in BOOLEAN :
         /\ video_input' = input
         /\ IF loaded
            THEN /\ pc' = "save"
                 /\ UNCHANGED response
            ELSE Respond(ErrorResponse(400,
                     IF input = "base64" THEN "Erreur decodage base64"
                                         ELSE "Erreur telechargement video"))
    /\ UNCHANGED <<duration, video_open, i,
                   start_time, end_time, shorts, debug_errors, files, trace>>

(* lines 87-89: the source is saved to a temporary file (delete=False) *)
SaveOk ==
    /\ pc = "save"
    /\ files' = files \cup {VideoFile}
    /\ pc' = "probe"
    /\ UNCHANGED <<video_input, num_shorts, duration, video_open, i,
                   start_time, end_time, shorts, debug_errors, response, trace>>

(* lines 87-88: the file is created and the write raises, caught at 229 *)
SaveFails ==
    /\ pc = "save"
    /\ files' = files \cup {VideoFile}
    /\ Respond(ErrorResponse(500, "exception"))
    /\ UNCHANGED <<video_input, num_shorts, duration, video_open, i,
                   start_time, end_time, shorts, debug_errors, trace>>

(* lines 93-100: VideoFileClip raises *)
ProbeFails ==
    /\ pc = "probe"
    /\ files' = files \ {VideoFile}
    /\ Respond(ErrorResponse(400, "Erreur chargement video"))
    /\ UNCHANGED <<video_input, num_shorts, duration, video_open, i,
                   start_time, end_time, shorts, debug_errors, trace>>

(* lines 93-105: the video opens and is shorter than 30 s *)
ProbeTooShort ==
    /\ pc = "probe"
    /\ \E d \in Durations :
         /\ RejectDuration(d)
         /\ duration' = d
    /\ video_open' = FALSE
    /\ files' = files \ {VideoFile}
    /\ Respond(ErrorResponse(400, "Video trop courte (min 30s)"))
    /\ UNCHANGED <<video_input, num_shorts, i, start_time, end_time, shorts,
                   debug_errors, trace>>

(* lines 93-108: the video opens and is long enough *)
ProbeOk ==
    /\ pc = "probe"
    /\ \E d \in Durations :
         /\ ~RejectDuration(d)
         /\ duration' = d
    /\ video_open' = TRUE
    /\ shorts' = <<>>
    /\ debug_errors' = <<>>
    /\ i' = 0
    /\ pc' = "loop"
    /\ UNCHANGED <<video_input, num_shorts, start_time, end_time, files,
                   response, trace>>

(* lines 111-118: the window of iteration i *)
Plan ==
    /\ pc = "loop"
    /\ i < LoopCount(num_shorts)
    /\ start_time' = StartTime(duration, num_shorts, i)
    /\ end_time' = EndTime(duration, num_shorts, i)

(* lines 121-125: the window is too short, the loop breaks *)
PlanStop ==
    /\ Plan
    /\ TooShort(duration, num_shorts, i)
    /\ debug_errors' = AddError(debug_errors, "too_short", i)
    /\ pc' = "cleanup"
    /\ UNCHANGED <<video_input, num_shorts, duration, video_open, i,
                   shorts, files, response, trace>>

(* lines 127-128 and 199-203: subclip raises *)
ExtractSubclipFails ==
    /\ Plan
    /\ ~TooShort(duration, num_shorts, i)
    /\ debug_errors' = AddError(debug_errors, "short_error", i)
    /\ trace' = Append(trace,
           Attempt(i, "fail", "none", "none", "none", "none", "none", "failed"))
    /\ pc' = OnFailure(i, num_shorts)
    /\ i' = i + 1
    /\ UNCHANGED <<video_input, num_shorts, duration, video_open,
                   shorts, files, response>>

(* lines 131-139 and 199-203: no transform is left, the window fails *)
ExtractResizeFails ==
    /\ Plan
    /\ ~TooShort(duration, num_shorts, i)
    /\ \E resizeOk \in BOOLEAN :
         /\ Transform(FALSE, resizeOk) = "raise"
         /\ debug_errors' =
                AddError(LogCrop(debug_errors, i, FALSE), "short_error", i)
         /\ trace' = Append(trace,
                Attempt(i, "ok", "fail", Outcome(resizeOk), "none", "none",
                        "none", "failed"))
    /\ pc' = OnFailure(i, num_shorts)
    /\ i' = i + 1
    /\ UNCHANGED <<video_input, num_shorts, duration, video_open,
                   shorts, files, response>>

(* lines 127-174: write_videofile raises; both temporary files are removed *)
ExtractEncodeFails ==
    /\ Plan
    /\ ~TooShort(duration, num_shorts, i)
    /\ \E cropOk \in BOOLEAN :
         /\ Transform(cropOk, TRUE) # "raise"
         /\ debug_errors' =
                AddError(LogCrop(debug_errors, i, cropOk), "write_fail", i)
         /\ trace' = Append(trace,
                Attempt(i, "ok", Outcome(cropOk),
                        IF cropOk THEN "none" ELSE "ok",
                        Transform(cropOk, TRUE), "fail", "none", "failed"))
    /\ files' = AfterWriteFailure(files, i)
    /\ pc' = OnFailure(i, num_shorts)
    /\ i' = i + 1
    /\ UNCHANGED <<video_input, num_shorts, duration, video_open,
                   shorts, response>>

(* lines 127-160, 177-178 and 199-203: the encoded file cannot be read back *)
ExtractReadFails ==
    /\ Plan
    /\ ~TooShort(duration, num_shorts, i)
    /\ \E cropOk \in BOOLEAN :
         /\ Transform(cropOk, TRUE) # "raise"
         /\ debug_errors' =
                AddError(LogCrop(debug_errors, i, cropOk), "short_error", i)
         /\ trace' = Append(trace,
                Attempt(i, "ok", Outcome(cropOk),
                        IF cropOk THEN "none" ELSE "ok",
                        Transform(cropOk, TRUE), "ok", "fail", "failed"))
    /\ files' = AfterWrite(files, i)
    /\ pc' = OnFailure(i, num_shorts)
    /\ i' = i + 1
    /\ UNCHANGED <<video_input, num_shorts, duration, video_open,
                   shorts, response>>

(* lines 127-197: the window is encoded, read back and appended *)
ExtractOk ==
    /\ Plan
    /\ ~TooShort(duration, num_shorts, i)
    /\ \E cropOk \in BOOLEAN :
         /\ Transform(cropOk, TRUE) # "raise"
         /\ debug_errors' = LogCrop(debug_errors, i, cropOk)
         /\ trace' = Append(trace,
                Attempt(i, "ok", Outcome(cropOk),
                        IF cropOk THEN "none" ELSE "ok",
                        Transform(cropOk, TRUE), "ok", "ok", "ok"))
    /\ shorts' = AddShort(shorts, ShortEntry(i, start_time', end_time'))
    /\ files' = AfterWrite(files, i) \ {ShortFile(i)}
    /\ pc' = NextIteration(i, num_shorts)
    /\ i' = i + 1
    /\ UNCHANGED <<video_input, num_shorts, duration, video_open,
                   response>>

(* lines 205-227: the source is closed and removed, the response is built *)
Aggregate ==
    /\ pc = "cleanup"
    /\ video_open' = FALSE
    /\ files' = files \ {VideoFile}
    /\ Respond(Report(shorts, debug_errors))
    /\ UNCHANGED <<video_input, num_shorts, duration, i, start_time,
                   end_time, shorts, debug_errors, trace>>

Next ==
    \/ ReceiveNoData
    \/ ReceiveBadCount
    \/ ReceiveNoVideo
    \/ ReceiveVideo
    \/ SaveOk
    \/ SaveFails
    \/ ProbeFails
    \/ ProbeTooShort
    \/ ProbeOk
    \/ PlanStop
    \/ ExtractSubclipFails
    \/ ExtractResizeFails
    \/ ExtractEncodeFails
    \/ ExtractReadFails
    \/ ExtractOk
    \/ Aggregate

Spec == Init /\ [][Next]_vars

----------------------------------------------------------------------------
(* What the properties below speak of *)

(* The request passed the probe: the source opened and lasts >= 30 s. *)
Accepted == duration >= MinDuration * TicksPerSecond

(* The loop is over (break or range exhausted). *)
LoopDone == pc \in {"cleanup", "done"}

Attempts == 1..Len(trace)

Attempted == { trace[j].index : j \in Attempts }

Succeeded == { trace[j].index : j \in { a \in Attempts : trace[a].result = "ok" } }

Failed == { trace[j].index : j \in { a \in Attempts : trace[a].result = "failed" } }

CropFailed == { trace[j].index : j \in { a \in Attempts : trace[a].crop = "fail" } }

Indices(s) == [ j \in 1..Len(s) |-> s[j].index ]

Range(s) == { s[j] : j \in 1..Len(s) }

StrictlyIncreasing(s) == \A a, b \in 1..Len(s) : a < b => s[a] < s[b]

Entries(errs, kinds, k) ==
    { j \in 1..Len(errs) : errs[j].kind \in kinds /\ errs[j].index = k }

(* The planner's stop fired (its message is in debug_errors). *)
Stopped == \E j \in 1..Len(debug_errors) : debug_errors[j].kind = "too_short"

(* A window has been computed, and the index of the last one computed. *)
WindowComputed == Stopped \/ Len(trace) > 0

LastIndex == IF Stopped THEN i ELSE i - 1

(* The length of the window of index k is at least 5 s. *)
LongEnough(k) ==
    EndTime(duration, num_shorts, k) - StartTime(duration, num_shorts, k)
        >= MinSegmentLength * Den(num_shorts)

LoopIndices == 0..(LoopCount(num_shorts) - 1)

(* The window of the specification's planner for index k, in units of      *)
(* 1 / SpecDen(n) s: effectiveCount = clamp(n, 1, 5) divides the duration. *)
SpecDen(n) == OffsetDivisor * LoopCount(n) * TicksPerSecond

SpecStart(d, n, k) ==
    k * OffsetDivisor * d + Min(MaxOffset * SpecDen(n), d)

SpecEnd(d, n, k) ==
    Min(d * OffsetDivisor * LoopCount(n), SpecStart(d, n, k) + ClipLength * SpecDen(n))

----------------------------------------------------------------------------
(* C1: for a request that reaches aggregation (source opened, duration >=  *)
(* 30 s), whatever the windows' outcomes, the response's success flag is   *)
(* true iff at least one clip was produced, the reported count is the      *)
(* number of clips in the response, and when every attempted window failed *)
(* the response has success = false and a count of 0.                      *)
C1_SuccessIffClip ==
    (pc = "done" /\ Accepted) =>
        /\ response.success <=> (Succeeded # {})
        /\ response.shorts_created = Len(response.shorts)
        /\ ("shorts" \in response.keys) <=> response.success
        /\ (Succeeded = {}) => (~response.success /\ response.shorts_created = 0)

C1_Witness ==
    /\ pc = "done" /\ Accepted
    /\ Len(trace) >= 2 /\ Succeeded = {}
    /\ ~response.success /\ response.shorts_created = 0

(* C2: a failed window never aborts the batch: every window of the loop    *)
(* that passes the minimum-length check is handed to extraction exactly    *)
(* once, in index order, whatever the earlier windows did, and a window    *)
(* whose encode failed is not encoded again: it stays failed, with its one *)
(* write_videofile entry in debug_errors.                                  *)
C2_NoAbortNoRetry ==
    /\ \A j \in Attempts : trace[j].index = j - 1
    /\ (LoopDone /\ Accepted) =>
           \A k \in LoopIndices :
               ~TooShort(duration, num_shorts, k) =>
                   Cardinality({ j \in Attempts : trace[j].index = k }) = 1
    /\ \A j \in Attempts :
           trace[j].encode = "fail" =>
               /\ trace[j].result = "failed"
               /\ trace[j].index \notin Range(Indices(shorts))
               /\ Cardinality(Entries(debug_errors, {"write_fail"}, trace[j].index)) = 1

C2_Witness ==
    /\ pc = "done"
    /\ Len(trace) = MaxCount
    /\ trace[1].encode = "fail"
    /\ trace[2].subclip = "fail"
    /\ trace[MaxCount].result = "ok"

(* C3: at every point of a request and in the final response, the list of  *)
(* clips is in strictly increasing window index, and its indices are       *)
(* exactly those of the windows whose extraction succeeded.                *)
C3_ClipsInWindowOrder ==
    /\ StrictlyIncreasing(Indices(shorts))
    /\ Range(Indices(shorts)) = Succeeded
    /\ (pc = "done" /\ Accepted) =>
           /\ StrictlyIncreasing(Indices(response.shorts))
           /\ Range(Indices(response.shorts)) = Succeeded

C3_Witness ==
    /\ pc = "done"
    /\ Len(trace) = 5
    /\ Failed = {1, 3}
    /\ Indices(response.shorts) = <<0, 2, 4>>

(* C4, as stated: in the final response the diagnostics hold exactly one   *)
(* entry for each failed window and no entry for any other window.         *)
C4_OneEntryPerFailedWindow ==
    (pc = "done" /\ Accepted) =>
        /\ Len(response.debug_errors) = Cardinality(Failed)
        /\ \A j \in 1..Len(response.debug_errors) :
               response.debug_errors[j].index \in Failed
        /\ \A k \in Failed :
               Cardinality({ j \in 1..Len(response.debug_errors) :
                               response.debug_errors[j].index = k }) = 1

(* C4, amended: the diagnostics hold exactly one failure entry for each    *)
(* failed window and none for any other, plus one crop entry for each      *)
(* window whose crop failed (whether the window then succeeded or not) and *)
(* one entry for the planner's stop when it fired; nothing else.           *)
C4_EntriesOfResponse ==
    (pc = "done" /\ Accepted) =>
        LET errs == response.debug_errors IN
        /\ \A k \in LoopIndices :
               /\ Cardinality(Entries(errs, {"short_error", "write_fail"}, k))
                      = IF k \in Failed THEN 1 ELSE 0
               /\ Cardinality(Entries(errs, {"crop_fail"}, k))
                      = IF k \in CropFailed THEN 1 ELSE 0
               /\ Cardinality(Entries(errs, {"too_short"}, k))
                      = IF k \notin Attempted /\ ~LongEnough(k) /\ k = Len(trace)
                        THEN 1 ELSE 0
        /\ \A j \in 1..Len(errs) : errs[j].index \in LoopIndices
        /\ Len(errs) = Cardinality(Failed) + Cardinality(CropFailed)
                           + (IF Stopped THEN 1 ELSE 0)
        /\ (CropFailed = {} /\ ~Stopped) => Len(errs) = Cardinality(Failed)

C4_Witness ==
    /\ pc = "done" /\ Accepted
    /\ Len(trace) = 5
    /\ Failed = {1, 3}
    /\ CropFailed = {0, 1}
    /\ Len(response.debug_errors) = 4

(* C5: on every exit path every temporary file the request created is gone *)
(* when the response is returned, and the temporary files of a window are  *)
(* gone before the next window begins.                                     *)
C5_NoTemporaryFileLeft ==
    /\ pc = "done" => files = {}
    /\ pc \in {"loop", "cleanup"} => files \subseteq {VideoFile}

(* C6: the window computed for index i has start = i * segmentDuration +   *)
(* min(10, 0.2 * segmentDuration) and end = min(duration, start + 15),     *)
(* with segmentDuration = duration / clamp(requestedCount, 1, 5).          *)
C6_WindowOfEffectiveCount ==
    (Accepted /\ WindowComputed) =>
        /\ start_time * SpecDen(num_shorts)
               = SpecStart(duration, num_shorts, LastIndex) * Den(num_shorts)
        /\ end_time * SpecDen(num_shorts)
               = SpecEnd(duration, num_shorts, LastIndex) * Den(num_shorts)

(* C7: window i is handed to extraction iff every index j <= i has a window *)
(* of at least 5 s; no window shorter than 5 s or ending after the         *)
(* duration is extracted or reported; once an index is too short, planning *)
(* stops and no later index is attempted.                                  *)
C7_StopAtFirstShortWindow ==
    Accepted =>
        LET short   == { k \in LoopIndices : ~LongEnough(k) }
            passing == { k \in LoopIndices : \A j \in short : k < j }
            limit   == duration * OffsetDivisor * Max(num_shorts, 1)
            done    == Attempted
        IN
        /\ done \subseteq passing
        /\ LoopDone => passing \subseteq done
        /\ \A k \in done : EndTime(duration, num_shorts, k) <= limit
        /\ \A j \in 1..Len(shorts) :
               /\ shorts[j].duration >= MinSegmentLength * Den(num_shorts)
               /\ shorts[j].timestamp + shorts[j].duration <= limit
        /\ Stopped =>
               /\ LoopDone
               /\ i \in short
               /\ \A k \in done : k < i

C7_Witness ==
    /\ pc = "done" /\ Accepted
    /\ Stopped
    /\ Len(trace) = MaxCount - 1
    /\ response.shorts_created = MaxCount - 1

(* C8: a request with no video input, or whose probed duration is below    *)
(* 30 s, is rejected before planning: no window is computed, no extraction *)
(* is attempted, the response has success = false and holds no clip.       *)
C8_RejectedBeforePlanning ==
    ((pc # "start" /\ video_input = "none") \/ (duration > 0 /\ ~Accepted)) =>
        /\ pc = "done"
        /\ start_time = 0 /\ end_time = 0 /\ ~WindowComputed
        /\ trace = <<>> /\ shorts = <<>>
        /\ ~response.success
        /\ response.shorts = <<>> /\ "shorts" \notin response.keys

C8_Witness ==
    /\ pc = "done"
    /\ duration > 0 /\ ~Accepted
    /\ response.status = 400
    /\ files = {}

(* C9: a failed crop is not a segment error.  A window whose crop failed   *)
(* is encoded in resize-only mode (when the fallback resize itself works); *)
(* if its export then succeeds (write_videofile, and the read-back of the  *)
(* encoded file, lines 141-186) the window is among the clips; and the     *)
(* batch goes on to the next index.                                        *)
C9_CropFailureFallsBack ==
    \A j \in Attempts :
        (trace[j].crop = "fail" /\ trace[j].resize = "ok") =>
            /\ trace[j].mode = "ResizeOnly"
            /\ trace[j].encode # "none"
            /\ (trace[j].encode = "ok" /\ trace[j].read = "ok") =>
                   /\ trace[j].result = "ok"
                   /\ trace[j].index \in Range(Indices(shorts))
                   /\ pc = "done" => trace[j].index \in Range(Indices(response.shorts))
            /\ (LoopDone /\ trace[j].index + 1 \in LoopIndices) =>
                   \/ trace[j].index + 1 \in Attempted
                   \/ (Stopped /\ i = trace[j].index + 1)

C9_Witness ==
    /\ pc = "done"
    /\ Len(trace) >= 2
    /\ trace[1].crop = "fail" /\ trace[1].mode = "ResizeOnly"
    /\ trace[1].result = "ok"
    /\ 0 \in Range(Indices(response.shorts))

(* C10: in an accepted request the stop can fire only at the last index of *)
(* the loop; window 0 passes the check with its full 15 s; at least        *)
(* max(1, effectiveCount - 1) windows are handed to extraction; so a       *)
(* response without clips comes from failed extractions, not from an empty *)
(* plan.                                                                   *)
C10_StopOnlyAtLastIndex ==
    Accepted =>
        /\ Stopped => i = LoopCount(num_shorts) - 1
        /\ (WindowComputed /\ LastIndex = 0) =>
               /\ ~Stopped
               /\ end_time - start_time = ClipLength * Den(num_shorts)
        /\ LoopDone => Len(trace) >= Max(1, LoopCount(num_shorts) - 1)
        /\ (pc = "done" /\ response.shorts_created = 0) => Failed # {}

C10_Witness ==
    /\ pc = "done" /\ Accepted
    /\ Stopped
    /\ i = LoopCount(num_shorts) - 1
    /\ response.shorts_created = 0
    /\ Cardinality(Failed) = MaxCount - 1

====
